---- MODULE Spec2Model ----
(***************************************************************************)
(* Capacity-aware case assignment (frontend/src/data/api.ts).              *)
(*                                                                         *)
(* One assignment pass, assignCasesToHospitals(cases, hospitals), is       *)
(* modelled step by step: the early exit on an empty hospital list, the    *)
(* grouping of the cases by placeName, the sort of the groups, one step    *)
(* per iteration of the loop that commits a group to a hospital and to     *)
(* the capacity ledger, and the final mapping of the cases.                *)
(*                                                                         *)
(* Geometry.  All points of the model lie on one meridian, where           *)
(* haversineKm(lat1, lng, lat2, lng) = R * |lat2 - lat1| * PI / 180: the    *)
(* ranking key is |lat2 - lat1|.  A group's centroid is latSum / count; the *)
(* model keeps latSum and count and compares count * |centroid - lat|,     *)
(* which ranks the hospitals of one group exactly as the distance does.    *)
(***************************************************************************)
EXTENDS Integers, Sequences, FiniteSets, TLC

VARIABLES
    cases,            \* input: the EmergencyCase list
    hospitals,        \* input: the Hospital list
    pc,               \* position in assignCasesToHospitals
    placeGroups,      \* the placeGroups array
    gi,               \* index of the next group of the for-loop
    usedCapacity,     \* Map hospital name -> victims committed in this pass
    placeToHospital,  \* Map placeName -> hospital name
    result,           \* the returned case list
    tierOf,           \* history: placeName -> loop (1..4) that returned
    usedBefore,       \* history: usedCapacity as the last search read it
    runs,             \* the locals of each of two passes under way at once
    heap,             \* the Map instances the passes under way allocated
    call,             \* the arguments of the call of a function under way
    ret,              \* <<>>, or <<v>> once the call has returned v
    last,             \* history: the call before this one and its return
    loading,          \* useLiveCases: the loading flag
    reports,          \* the cases of the reports the backend holds
    pending,          \* the calls of refresh under way
    viaSSE            \* history: the ids of the cases the SSE handler set

vars == <<cases, hospitals, pc, placeGroups, gi, usedCapacity,
          placeToHospital, result, tierOf, usedBefore,
          runs, heap, call, ret, last,
          loading, reports, pending, viaSSE>>

\* the state outside a single pass
aside == <<runs, heap, call, ret, last, loading, reports, pending, viaSSE>>

\* the state of the useLiveCases hook, but for its case list
hook == <<loading, reports, pending, viaSSE>>

----------------------------------------------------------------------------
(* Bounds of the model *)

MaxHospitals == 2
MaxCases == 2
MaxOrderCases == 3
MaxLat == 1
MaxBeds == 1
MaxPatients == 1
MaxBedTotal == 2
LargePool == 100
MaxDangerVictims == 12
MaxReportTime == 2
MaxLive == 2
MaxPending == 2

\* null, as a case's assignedHospital
NULL == "null"

\* null, as the Hospital | null a search returns
NoHospital == [name |-> NULL]

\* no call under way
NoCall == [fn |-> NULL]

HospitalNames == <<"H1", "H2", "H3", "H4">>
CaseIds == <<"c1", "c2", "c3", "c4", "c5">>
PlaceNames == {"Medina", "Gueliz", "Hivernage"}

----------------------------------------------------------------------------
(* Generic helpers *)

Abs(x) == IF x < 0 THEN -x ELSE x

Max(a, b) == IF a >= b THEN a ELSE b

MinOf(S) == CHOOSE x \in S : \A y \in S : x <= y

EmptyMap == [k \in {} |-> 0]

\* Map.get(k) ?? dflt
MapGet(m, k, dflt) == IF k \in DOMAIN m THEN m[k] ELSE dflt

\* Map.set(k, v)
MapSet(m, k, v) == [x \in (DOMAIN m) \cup {k} |-> IF x = k THEN v ELSE m[x]]

\* Array.prototype.sort, which is stable.  negative is the set of the pairs
\* <<i, j>> of indices for which the comparator is negative on (seq[i],
\* seq[j]); element i comes before element j when <<i, j>> is in it, or
\* when the comparator finds the two equal and i precedes j.
StableSort(seq, negative) ==
    LET n == Len(seq)
        before(j, i) ==
            \/ <<j, i>> \in negative
            \/ <<j, i>> \notin negative /\ <<i, j>> \notin negative /\ j < i
        pos(i) == Cardinality({j \in 1..n : before(j, i)}) + 1
    IN  [p \in 1..n |-> seq[CHOOSE i \in 1..n : pos(i) = p]]

\* Array.prototype.reduce((s, x) => s + x, 0)
RECURSIVE SumSeq(_)
SumSeq(seq) == IF seq = <<>> THEN 0 ELSE Head(seq) + SumSeq(Tail(seq))

----------------------------------------------------------------------------
(* api.ts: severity ranks and requirement inference *)

severityOrder == [critical |-> 0, severe |-> 1, moderate |-> 2, mild |-> 3]

Severities == DOMAIN severityOrder

\* String.prototype.toLowerCase on the words of the model's vocabulary
toLowerCase(w) ==
    CASE w = "Cardiac" -> "cardiac"
      [] w = "Burn" -> "burn"
      [] w = "Medina" -> "medina"
      [] OTHER -> w

\* the words of the lowercased text blob of a case
TextWords(c) == {toLowerCase(c.signsAndSymptoms[i]) : i \in 1..Len(c.signsAndSymptoms)}

\* a match of a\s+b: two consecutive words of the blob
TextHasPair(c, a, b) ==
    \E i \in 1..(Len(c.signsAndSymptoms) - 1) :
        /\ toLowerCase(c.signsAndSymptoms[i]) = a
        /\ toLowerCase(c.signsAndSymptoms[i + 1]) = b

getRequiredServicesForCase(c) ==
    LET text == TextWords(c)
    IN  (IF text \cap {"cardiac", "heart", "pulse", "arrest", "chest"} # {}
            THEN {"cardiology"} ELSE {})
        \cup (IF \/ text \cap {"bleeding", "trauma", "unconscious", "hemorrhage"} # {}
                \/ TextHasPair(c, "severe", "injury")
            THEN {"traumaUnit"} ELSE {})
        \cup (IF text \cap {"fracture", "bone", "ortho", "broken"} # {}
            THEN {"orthopedics"} ELSE {})
        \cup (IF text \cap {"child", "pediatric", "baby", "infant"} # {}
            THEN {"pediatrics"} ELSE {})
        \cup (IF \/ text \cap {"brain", "neuro", "stroke", "coma"} # {}
                \/ TextHasPair(c, "head", "injury")
            THEN {"neurosurgery"} ELSE {})
        \cup (IF text \cap {"burn"} # {} THEN {"burnUnit"} ELSE {})
        \cup (IF text \cap {"eye", "ophthal", "vision"} # {}
            THEN {"ophthalmology"} ELSE {})

----------------------------------------------------------------------------
(* lib/geo.ts *)

\* count * haversineKm(latSum / count, lng, lat, lng) in units of
\* R * PI / 180, for points of one meridian
haversineKm(latSum, count, lat) == Abs(latSum - count * lat)

----------------------------------------------------------------------------
(* api.ts: findNearestHospitalWithCapacityAndServices *)

\* mutant: requiredServices.some(...)
hasServicesSome(h, requiredServices) ==
    \E key \in requiredServices : key \in h.services

\* requiredServices.every(key => h.services[key] === true)
hasServices(h, requiredServices) ==
    \A key \in requiredServices : key \in h.services

\* mutant: the hospitals in input order
byDistOfUnsorted(latSum, count, hs) == hs

\* [...hospitals].sort(by distance from the group's centroid)
byDistOf(latSum, count, hs) ==
    LET d(i) == haversineKm(latSum, count, hs[i].latitude)
    IN  StableSort(hs, {ij \in (1..Len(hs)) \X (1..Len(hs)) : d(ij[1]) - d(ij[2]) < 0})

\* mutant: hospitals.sort(...), which sorts the caller's array in place
hospitalsAfterSortInPlace(latSum, count, hs) == byDistOf(latSum, count, hs)

\* the caller's array after [...hospitals].sort(...): the spread copies the
\* array and the sort works on the copy
hospitalsAfterSort(latSum, count, hs) == hs

\* mutant: the beds of the hospital record, whatever the ledger
availableBedsNoLedger(h, used) == Max(0, h.emergencyBeds.available)

\* const used = usedCapacity.get(h.name) ?? 0;
\* const available = Math.max(0, h.emergencyBeds.available - used);
availableBeds(h, used) ==
    Max(0, h.emergencyBeds.available - MapGet(used, h.name, 0))

\* mutant: the final return gives up
nearestOfAllNone(byDist) == NoHospital

\* mutant: the final return takes the farthest
nearestOfAllLast(byDist) == IF Len(byDist) > 0 THEN byDist[Len(byDist)] ELSE NoHospital

\* return byDist[0] ?? null
nearestOfAll(byDist) == IF Len(byDist) > 0 THEN byDist[1] ELSE NoHospital

\* mutant: without the second loop
selectHospitalNoTier2(latSum, count, hs, used, requiredBeds, requiredServices) ==
    LET byDist == byDistOf(latSum, count, hs)
        idx == 1..Len(byDist)
        t1 == {i \in idx : /\ availableBeds(byDist[i], used) >= requiredBeds
                           /\ hasServices(byDist[i], requiredServices)}
        t3 == {i \in idx : hasServices(byDist[i], requiredServices)}
    IN  IF t1 # {} THEN [h |-> byDist[MinOf(t1)], tier |-> 1]
        ELSE IF t3 # {} THEN [h |-> byDist[MinOf(t3)], tier |-> 3]
        ELSE [h |-> nearestOfAll(byDist), tier |-> 4]

\* mutant: without the third loop
selectHospitalNoTier3(latSum, count, hs, used, requiredBeds, requiredServices) ==
    LET byDist == byDistOf(latSum, count, hs)
        idx == 1..Len(byDist)
        t1 == {i \in idx : /\ availableBeds(byDist[i], used) >= requiredBeds
                           /\ hasServices(byDist[i], requiredServices)}
        t2 == {i \in idx : availableBeds(byDist[i], used) >= requiredBeds}
    IN  IF t1 # {} THEN [h |-> byDist[MinOf(t1)], tier |-> 1]
        ELSE IF t2 # {} THEN [h |-> byDist[MinOf(t2)], tier |-> 2]
        ELSE [h |-> nearestOfAll(byDist), tier |-> 4]

\* mutant: the first loop does not test the beds
selectHospitalNoBedTest(latSum, count, hs, used, requiredBeds, requiredServices) ==
    LET byDist == byDistOf(latSum, count, hs)
        idx == 1..Len(byDist)
        t1 == {i \in idx : hasServices(byDist[i], requiredServices)}
    IN  IF t1 # {} THEN [h |-> byDist[MinOf(t1)], tier |-> 1]
        ELSE [h |-> nearestOfAll(byDist), tier |-> 4]

\* the hospital returned, and the loop (1, 2, 3) or final return (4) that
\* returned it
selectHospital(latSum, count, hs, used, requiredBeds, requiredServices) ==
    LET byDist == byDistOf(latSum, count, hs)
        idx == 1..Len(byDist)
        t1 == {i \in idx : /\ availableBeds(byDist[i], used) >= requiredBeds
                           /\ hasServices(byDist[i], requiredServices)}
        t2 == {i \in idx : availableBeds(byDist[i], used) >= requiredBeds}
        t3 == {i \in idx : hasServices(byDist[i], requiredServices)}
    IN  IF t1 # {} THEN [h |-> byDist[MinOf(t1)], tier |-> 1]
        ELSE IF t2 # {} THEN [h |-> byDist[MinOf(t2)], tier |-> 2]
        ELSE IF t3 # {} THEN [h |-> byDist[MinOf(t3)], tier |-> 3]
        ELSE [h |-> nearestOfAll(byDist), tier |-> 4]

findNearestHospitalWithCapacityAndServices(latSum, count, hs, used, requiredBeds, requiredServices) ==
    selectHospital(latSum, count, hs, used, requiredBeds, requiredServices).h

----------------------------------------------------------------------------
(* api.ts: assignCasesToHospitals, the pure parts *)

\* mutant: the early exit returns the cases as they came
noHospitalResultSame(cs) == cs

\* if (hospitals.length === 0) return cases.map(c => ({...c, assignedHospital: null}))
noHospitalResult(cs) ==
    [i \in 1..Len(cs) |-> [cs[i] EXCEPT !.assignedHospital = NULL]]

\* the keys of byPlace in insertion order: place names by first appearance
placeOrder(cs) ==
    LET places == {cs[i].placeName : i \in 1..Len(cs)}
        first(p) == MinOf({i \in 1..Len(cs) : cs[i].placeName = p})
        pos(p) == Cardinality({q \in places : first(q) < first(p)}) + 1
    IN  [k \in 1..Cardinality(places) |-> CHOOSE p \in places : pos(p) = k]

\* mutant: byPlace keyed by the lowercased place name
placeGroupFolded(cs, p) ==
    LET caseList == SelectSeq(cs, LAMBDA c : toLowerCase(c.placeName) = toLowerCase(p))
        n == Len(caseList)
        rank(i) == severityOrder[caseList[i].severity]
    IN  [placeName |-> p,
         latSum |-> SumSeq([i \in 1..n |-> caseList[i].latitude]),
         count |-> n,
         caseList |-> StableSort(caseList,
                                 {ij \in (1..n) \X (1..n) : rank(ij[1]) - rank(ij[2]) < 0}),
         totalVictims |-> SumSeq([i \in 1..n |-> caseList[i].numberOfPatients]),
         requiredServices |->
             UNION {getRequiredServicesForCase(caseList[i]) : i \in 1..n}]

\* mutant: the requirements of the first case of the place stand for all
placeGroupFirstOnly(cs, p) ==
    LET caseList == SelectSeq(cs, LAMBDA c : c.placeName = p)
        n == Len(caseList)
        rank(i) == severityOrder[caseList[i].severity]
    IN  [placeName |-> p,
         latSum |-> SumSeq([i \in 1..n |-> caseList[i].latitude]),
         count |-> n,
         caseList |-> StableSort(caseList,
                                 {ij \in (1..n) \X (1..n) : rank(ij[1]) - rank(ij[2]) < 0}),
         totalVictims |-> SumSeq([i \in 1..n |-> caseList[i].numberOfPatients]),
         requiredServices |-> getRequiredServicesForCase(caseList[1])]

\* one entry of placeGroups, for the place name p
placeGroup(cs, p) ==
    LET caseList == SelectSeq(cs, LAMBDA c : c.placeName = p)
        n == Len(caseList)
        rank(i) == severityOrder[caseList[i].severity]
    IN  [placeName |-> p,
         latSum |-> SumSeq([i \in 1..n |-> caseList[i].latitude]),
         count |-> n,
         caseList |-> StableSort(caseList,
                                 {ij \in (1..n) \X (1..n) : rank(ij[1]) - rank(ij[2]) < 0}),
         totalVictims |-> SumSeq([i \in 1..n |-> caseList[i].numberOfPatients]),
         requiredServices |->
             UNION {getRequiredServicesForCase(caseList[i]) : i \in 1..n}]

\* mutant: only the cases without a hospital are grouped and placed
buildPlaceGroupsUnassigned(cs) ==
    LET todo == SelectSeq(cs, LAMBDA c : c.assignedHospital = NULL)
        order == placeOrder(todo)
    IN  [k \in 1..Len(order) |-> placeGroup(todo, order[k])]

\* Array.from(byPlace.entries()).map(...)
buildPlaceGroups(cs) ==
    LET order == placeOrder(cs)
    IN  [k \in 1..Len(order) |-> placeGroup(cs, order[k])]

\* Math.min(...g.caseList.map(c => severityOrder[c.severity]))
worstOf(g) ==
    MinOf({severityOrder[g.caseList[i].severity] : i \in 1..Len(g.caseList)})

\* mutant: a.totalVictims - b.totalVictims
groupBeforeSmallFirst(a, b) ==
    \/ worstOf(a) < worstOf(b)
    \/ worstOf(a) = worstOf(b) /\ a.totalVictims < b.totalVictims

\* the comparator of placeGroups.sort: negative when a sorts before b
groupBefore(a, b) ==
    \/ worstOf(a) < worstOf(b)
    \/ worstOf(a) = worstOf(b) /\ a.totalVictims > b.totalVictims

sortPlaceGroups(gs) ==
    StableSort(gs, {ij \in (1..Len(gs)) \X (1..Len(gs)) : groupBefore(gs[ij[1]], gs[ij[2]])})

\* mutant: usedCapacity.set(assigned.name, g.totalVictims)
commitBedsOverwrite(used, name, totalVictims) == MapSet(used, name, totalVictims)

\* usedCapacity.set(assigned.name, used + g.totalVictims)
commitBeds(used, name, totalVictims) ==
    MapSet(used, name, MapGet(used, name, 0) + totalVictims)

\* mutant: the places recorded so far all move to the hospital of the group
\* being placed
recordPlaceAll(p2h, placeName, name) ==
    [q \in (DOMAIN p2h) \cup {placeName} |-> name]

\* placeToHospital.set(g.placeName, assigned.name)
recordPlace(p2h, placeName, name) == MapSet(p2h, placeName, name)

\* mutant: the hospital is written into the objects of the input array
casesAfterMapInPlace(cs, res) == res

\* the caller's array after cases.map(c => ({...c, ...})): map returns a new
\* array and the spread a new object for every case
casesAfterMap(cs, res) == cs

\* mutant: a case that came in with a hospital keeps it
assignedResultKeepStale(cs, p2h) ==
    [i \in 1..Len(cs) |->
        IF cs[i].assignedHospital # NULL THEN cs[i]
        ELSE [cs[i] EXCEPT !.assignedHospital = MapGet(p2h, cs[i].placeName, NULL)]]

\* cases.map(c => ({...c, assignedHospital: placeToHospital.get(c.placeName) ?? null}))
assignedResult(cs, p2h) ==
    [i \in 1..Len(cs) |->
        [cs[i] EXCEPT !.assignedHospital = MapGet(p2h, cs[i].placeName, NULL)]]

----------------------------------------------------------------------------
(* The inputs of a pass *)

Symptoms == {<<>>, <<"Cardiac", "arrest">>, <<"Burn">>}

ServiceSets == {{"cardiology"}, {"cardiology", "burnUnit"}}

\* the fields of a Hospital the pass reads, but for its name
HospitalFields ==
    [latitude : 0..MaxLat,
     emergencyBeds : [available : 0..MaxBeds],
     services : ServiceSets]

\* the fields of an EmergencyCase the pass reads, but for its id
CaseFields(places, lats, sevs, patients, symptoms, assigned) ==
    [latitude : lats,
     placeName : places,
     severity : sevs,
     numberOfPatients : patients,
     signsAndSymptoms : symptoms,
     assignedHospital : assigned]

\* the hospital list of the fields f, named by position
HospitalList(f) ==
    [i \in DOMAIN f |->
        [name |-> HospitalNames[i],
         latitude |-> f[i].latitude,
         emergencyBeds |-> f[i].emergencyBeds,
         services |-> f[i].services]]

\* the case list of the fields f, with ids by position
CaseList(f) ==
    [i \in DOMAIN f |->
        [id |-> CaseIds[i],
         latitude |-> f[i].latitude,
         placeName |-> f[i].placeName,
         severity |-> f[i].severity,
         numberOfPatients |-> f[i].numberOfPatients,
         signsAndSymptoms |-> f[i].signsAndSymptoms,
         assignedHospital |-> f[i].assignedHospital]]

\* the hospital lists of the passes that vary the cases
OrderHospitals ==
    {<<>>,
     <<[name |-> "H1", latitude |-> 0, emergencyBeds |-> [available |-> 1],
        services |-> {"cardiology"}],
       [name |-> "H2", latitude |-> 1, emergencyBeds |-> [available |-> 2],
        services |-> {}]>>}

----------------------------------------------------------------------------
(* The pass as a state machine *)

Start(cs, hs) ==
    /\ cases = cs
    /\ hospitals = hs
    /\ pc = "start"
    /\ placeGroups = <<>>
    /\ gi = 1
    /\ usedCapacity = EmptyMap
    /\ placeToHospital = EmptyMap
    /\ result = <<>>
    /\ tierOf = EmptyMap
    /\ usedBefore = EmptyMap
    /\ runs = <<>>
    /\ heap = <<>>
    /\ call = NoCall
    /\ ret = <<>>
    /\ last = NoCall
    /\ loading = FALSE
    /\ reports = <<>>
    /\ pending = <<>>
    /\ viaSSE = {}

\* passes over every hospital list of up to MaxHospitals hospitals, the
\* cases in two places and of one severity
Init ==
    \E n \in 0..MaxCases, m \in 0..MaxHospitals :
        \E f \in [1..n -> CaseFields({"Medina", "Gueliz"}, 0..MaxLat, {"severe"},
                                      0..MaxPatients, Symptoms, {NULL})],
           g \in [1..m -> HospitalFields] :
            Start(CaseList(f), HospitalList(g))

\* passes over every case list of up to MaxOrderCases cases without symptoms
InitOrder ==
    \E n \in 0..MaxOrderCases, hs \in OrderHospitals :
        \E f \in [1..n -> CaseFields(PlaceNames, {0}, {"critical", "severe", "mild"},
                                      {0, 1}, {<<>>}, {NULL})] :
            Start(CaseList(f), hs)

\* passes over cases that carry the assignedHospital of an earlier pass
InitStale ==
    \E n \in 0..MaxOrderCases, hs \in OrderHospitals :
        \E f \in [1..n -> CaseFields({"Medina", "Gueliz"}, {0}, {"critical", "moderate"},
                                      {1, 2}, {<<>>}, {NULL, "H1"})] :
            Start(CaseList(f), hs)

\* line 284
EarlyExit ==
    /\ pc = "start"
    /\ Len(hospitals) = 0
    /\ result' = noHospitalResult(cases)
    /\ cases' = casesAfterMap(cases, noHospitalResult(cases))
    /\ pc' = "done"
    /\ UNCHANGED <<hospitals, placeGroups, gi, usedCapacity,
                   placeToHospital, tierOf, usedBefore>>
    /\ UNCHANGED aside

\* lines 286-319
GroupCases ==
    /\ pc = "start"
    /\ Len(hospitals) # 0
    /\ placeGroups' = buildPlaceGroups(cases)
    /\ pc' = "sort"
    /\ UNCHANGED <<cases, hospitals, gi, usedCapacity, placeToHospital,
                   result, tierOf, usedBefore>>
    /\ UNCHANGED aside

\* lines 321-331
SortGroups ==
    /\ pc = "sort"
    /\ placeGroups' = sortPlaceGroups(placeGroups)
    /\ gi' = 1
    /\ usedCapacity' = EmptyMap
    /\ placeToHospital' = EmptyMap
    /\ pc' = "assign"
    /\ UNCHANGED <<cases, hospitals, result, tierOf, usedBefore>>
    /\ UNCHANGED aside

\* lines 333-347, one iteration
AssignGroup ==
    /\ pc = "assign"
    /\ gi <= Len(placeGroups)
    /\ LET g == placeGroups[gi]
           sel == selectHospital(g.latSum, g.count, hospitals, usedCapacity,
                                 g.totalVictims, g.requiredServices)
           assigned == findNearestHospitalWithCapacityAndServices(
                           g.latSum, g.count, hospitals, usedCapacity,
                           g.totalVictims, g.requiredServices)
       IN  IF assigned # NoHospital
           THEN /\ usedCapacity' = commitBeds(usedCapacity, assigned.name, g.totalVictims)
                /\ placeToHospital' = recordPlace(placeToHospital, g.placeName, assigned.name)
                /\ tierOf' = MapSet(tierOf, g.placeName, sel.tier)
           ELSE UNCHANGED <<usedCapacity, placeToHospital, tierOf>>
    /\ usedBefore' = usedCapacity
    /\ gi' = gi + 1
    /\ hospitals' = hospitalsAfterSort(placeGroups[gi].latSum, placeGroups[gi].count, hospitals)
    /\ UNCHANGED <<cases, pc, placeGroups, result>>
    /\ UNCHANGED aside

\* lines 349-352
Finish ==
    /\ pc = "assign"
    /\ gi > Len(placeGroups)
    /\ result' = assignedResult(cases, placeToHospital)
    /\ cases' = casesAfterMap(cases, assignedResult(cases, placeToHospital))
    /\ pc' = "done"
    /\ UNCHANGED <<hospitals, placeGroups, gi, usedCapacity,
                   placeToHospital, tierOf, usedBefore>>
    /\ UNCHANGED aside

Next == EarlyExit \/ GroupCases \/ SortGroups \/ AssignGroup \/ Finish

Spec == Init /\ [][Next]_vars

SpecOrder == InitOrder /\ [][Next]_vars

SpecStale == InitStale /\ [][Next]_vars

\* passes over cases in places of which two have names that differ by the
\* case of a letter only
InitGroup ==
    \E n \in 0..MaxOrderCases, hs \in OrderHospitals :
        \E f \in [1..n -> CaseFields({"Medina", "medina", "Gueliz"}, {0}, {"severe"},
                                      {1, 2}, {<<>>}, {NULL})] :
            Start(CaseList(f), hs)

SpecGroup == InitGroup /\ [][Next]_vars

\* the report times of the cases, as minutes after the first report
ReportTimes == 1..MaxReportTime

\* the case list of the fields f with the timeOfReport of each case
TimedCaseList(f) ==
    [i \in DOMAIN f |->
        [id |-> CaseIds[i],
         timeOfReport |-> f[i].timeOfReport,
         latitude |-> 0,
         placeName |-> f[i].placeName,
         severity |-> f[i].severity,
         numberOfPatients |-> 1,
         signsAndSymptoms |-> <<>>,
         assignedHospital |-> NULL]]

\* passes over cases that were reported at different times and come in
\* any order
InitTimed ==
    \E n \in 0..MaxOrderCases, hs \in OrderHospitals :
        \E f \in [1..n -> [placeName : {"Medina", "Gueliz"},
                            severity : {"critical", "severe"},
                            timeOfReport : ReportTimes]] :
            Start(TimedCaseList(f), hs)

SpecTimed == InitTimed /\ [][Next]_vars

----------------------------------------------------------------------------
(* assignCasesToHospitals as a function of its two arguments *)

\* the ledger and the place map after the first n iterations of the loop of
\* lines 333-347 over the sorted groups gs, started from two empty Maps
RECURSIVE passAfter(_, _, _)
passAfter(gs, hs, n) ==
    IF n = 0 THEN [usedCapacity |-> EmptyMap, placeToHospital |-> EmptyMap]
    ELSE LET prev == passAfter(gs, hs, n - 1)
             g == gs[n]
             assigned == findNearestHospitalWithCapacityAndServices(
                             g.latSum, g.count, hs, prev.usedCapacity,
                             g.totalVictims, g.requiredServices)
         IN  IF assigned # NoHospital
             THEN [usedCapacity |->
                       commitBeds(prev.usedCapacity, assigned.name, g.totalVictims),
                   placeToHospital |->
                       recordPlace(prev.placeToHospital, g.placeName, assigned.name)]
             ELSE prev

assignCasesToHospitals(cs, hs) ==
    IF Len(hs) = 0 THEN noHospitalResult(cs)
    ELSE LET gs == sortPlaceGroups(buildPlaceGroups(cs))
         IN  assignedResult(cs, passAfter(gs, hs, Len(gs)).placeToHospital)

----------------------------------------------------------------------------
(* Two passes under way at once.  Each pass p has its own locals, runs[p]; *)
(* its usedCapacity is a reference to a Map instance of the heap.          *)

Passes == {1, 2}

\* mutant: one module-level Map, cleared when a pass reaches line 330
newMapShared(hp) == 1

\* new Map(): a reference to an instance no one holds yet
newMap(hp) == Cardinality(DOMAIN hp) + 1

\* the locals of a pass that has just been called
StartRun(cs, hs) ==
    [cases |-> cs, hospitals |-> hs, pc |-> "start", placeGroups |-> <<>>,
     gi |-> 1, usedCapacity |-> 0, placeToHospital |-> EmptyMap, result |-> <<>>]

\* two calls on the same registry; the single pass, the call and the
\* history are idle
StartTwo(cs1, cs2, hs) ==
    /\ runs = <<StartRun(cs1, hs), StartRun(cs2, hs)>>
    /\ heap = EmptyMap
    /\ cases = <<>>
    /\ hospitals = hs
    /\ pc = "idle"
    /\ placeGroups = <<>>
    /\ gi = 1
    /\ usedCapacity = EmptyMap
    /\ placeToHospital = EmptyMap
    /\ result = <<>>
    /\ tierOf = EmptyMap
    /\ usedBefore = EmptyMap
    /\ call = NoCall
    /\ ret = <<>>
    /\ last = NoCall
    /\ loading = FALSE
    /\ reports = <<>>
    /\ pending = <<>>
    /\ viaSSE = {}

\* the state a step of one of the two passes leaves alone
single == <<cases, hospitals, pc, placeGroups, gi, usedCapacity,
            placeToHospital, result, tierOf, usedBefore, call, ret, last,
            loading, reports, pending, viaSSE>>

\* line 284
RunEarlyExit(p) ==
    /\ runs[p].pc = "start"
    /\ Len(runs[p].hospitals) = 0
    /\ runs' = [runs EXCEPT ![p].result = noHospitalResult(runs[p].cases),
                            ![p].pc = "done"]
    /\ UNCHANGED heap
    /\ UNCHANGED single

\* lines 286-319
RunGroupCases(p) ==
    /\ runs[p].pc = "start"
    /\ Len(runs[p].hospitals) # 0
    /\ runs' = [runs EXCEPT ![p].placeGroups = buildPlaceGroups(runs[p].cases),
                            ![p].pc = "sort"]
    /\ UNCHANGED heap
    /\ UNCHANGED single

\* lines 321-331
RunSortGroups(p) ==
    /\ runs[p].pc = "sort"
    /\ LET ref == newMap(heap)
       IN  /\ heap' = MapSet(heap, ref, EmptyMap)
           /\ runs' = [runs EXCEPT ![p].placeGroups = sortPlaceGroups(runs[p].placeGroups),
                                   ![p].gi = 1,
                                   ![p].usedCapacity = ref,
                                   ![p].placeToHospital = EmptyMap,
                                   ![p].pc = "assign"]
    /\ UNCHANGED single

\* lines 333-347, one iteration
RunAssignGroup(p) ==
    /\ runs[p].pc = "assign"
    /\ runs[p].gi <= Len(runs[p].placeGroups)
    /\ LET r == runs[p]
           g == r.placeGroups[r.gi]
           used == heap[r.usedCapacity]
           assigned == findNearestHospitalWithCapacityAndServices(
                           g.latSum, g.count, r.hospitals, used,
                           g.totalVictims, g.requiredServices)
           sorted == hospitalsAfterSort(g.latSum, g.count, r.hospitals)
       IN  IF assigned # NoHospital
           THEN /\ heap' = [heap EXCEPT ![r.usedCapacity] =
                                commitBeds(used, assigned.name, g.totalVictims)]
                /\ runs' = [runs EXCEPT
                                ![p].placeToHospital =
                                    recordPlace(r.placeToHospital, g.placeName, assigned.name),
                                ![p].gi = r.gi + 1,
                                ![p].hospitals = sorted]
           ELSE /\ heap' = heap
                /\ runs' = [runs EXCEPT ![p].gi = r.gi + 1, ![p].hospitals = sorted]
    /\ UNCHANGED single

\* lines 349-352
RunFinish(p) ==
    /\ runs[p].pc = "assign"
    /\ runs[p].gi > Len(runs[p].placeGroups)
    /\ runs' = [runs EXCEPT
                    ![p].result = assignedResult(runs[p].cases, runs[p].placeToHospital),
                    ![p].pc = "done"]
    /\ UNCHANGED heap
    /\ UNCHANGED single

NextTwo ==
    \E p \in Passes :
        \/ RunEarlyExit(p)
        \/ RunGroupCases(p)
        \/ RunSortGroups(p)
        \/ RunAssignGroup(p)
        \/ RunFinish(p)

\* two passes over independent case lists of up to MaxCases cases
InitTwo ==
    \E n1 \in 0..MaxCases, n2 \in 0..MaxCases, hs \in OrderHospitals :
        \E f1 \in [1..n1 -> CaseFields({"Medina", "Gueliz"}, {0}, {"severe"},
                                        {1, 2}, {<<>>}, {NULL})],
           f2 \in [1..n2 -> CaseFields({"Medina", "Gueliz"}, {0}, {"severe"},
                                        {1, 2}, {<<>>}, {NULL})] :
            StartTwo(CaseList(f1), CaseList(f2), hs)

SpecTwo == InitTwo /\ [][NextTwo]_vars

\* the case list cs with the assignedHospital values a
withAssigned(cs, a) ==
    [i \in 1..Len(cs) |-> [cs[i] EXCEPT !.assignedHospital = a[i]]]

\* two passes over case lists that differ at most in the assignedHospital
\* values the cases carry
InitPair ==
    \E n \in 0..MaxCases, hs \in OrderHospitals :
        \E f \in [1..n -> CaseFields({"Medina", "Gueliz"}, {0}, {"severe"},
                                      {1, 2}, {<<>>}, {NULL, "H2"})],
           a \in [1..n -> {NULL, "H1"}] :
            StartTwo(CaseList(f), withAssigned(CaseList(f), a), hs)

SpecPair == InitPair /\ [][NextTwo]_vars

\* the case list cs in the order perm
permuted(cs, perm) == [i \in 1..Len(cs) |-> cs[perm[i]]]

\* two passes over the same cases in two orders
InitPerm ==
    \E n \in 0..MaxCases, hs \in OrderHospitals :
        \E f \in [1..n -> CaseFields({"Medina", "Gueliz"}, {0}, {"severe"},
                                      {1}, Symptoms, {NULL})],
           perm \in [1..n -> 1..n] :
            /\ \A i, j \in 1..n : perm[i] = perm[j] => i = j
            /\ StartTwo(CaseList(f), permuted(CaseList(f), perm), hs)

SpecPerm == InitPerm /\ [][NextTwo]_vars

----------------------------------------------------------------------------
(* api.ts: findBackupHospital, and its caller in CaseDetailModal.tsx *)

\* mutant: without the continue of line 272
backupSkipsNone(h, excludeHospitalName) == FALSE

\* if (h.name === excludeHospitalName) continue;
backupSkips(h, excludeHospitalName) == h.name = excludeHospitalName

\* [...hospitals].sort(by distance from the case)
backupOrder(lat, hs) == byDistOf(lat, 1, hs)

findBackupHospital(lat, hs, excludeHospitalName, requiredBeds, requiredServices) ==
    LET byDist == backupOrder(lat, hs)
        ok == {i \in 1..Len(byDist) :
                  /\ ~backupSkips(byDist[i], excludeHospitalName)
                  /\ byDist[i].emergencyBeds.available >= requiredBeds
                  /\ hasServices(byDist[i], requiredServices)}
    IN  IF ok # {} THEN byDist[MinOf(ok)] ELSE NoHospital

\* the hospital fields of the dispatch and backup models
SmallHospitalFields(services) ==
    [latitude : {0, 1}, emergencyBeds : [available : {0, 1}], services : services]

\* the hospital record of the name, or null (the assignedHospital prop)
hospitalNamed(hs, name) ==
    IF \E k \in 1..Len(hs) : hs[k].name = name
    THEN hs[CHOOSE k \in 1..Len(hs) : hs[k].name = name]
    ELSE NoHospital

\* CaseDetailModal.tsx 102-132: the modal of a case whose recommended
\* hospital has no emergency bed available asks for a backup
OpenCase ==
    /\ pc = "done"
    /\ call = NoCall \/ Len(ret) = 1
    /\ \E i \in 1..Len(result) :
          LET caseData == result[i]
              assignedHospital == hospitalNamed(hospitals, caseData.assignedHospital)
          IN  /\ assignedHospital # NoHospital
              /\ assignedHospital.emergencyBeds.available <= 0
              /\ call' = [fn |-> "findBackupHospital",
                          lat |-> caseData.latitude,
                          excludeHospitalName |-> assignedHospital.name,
                          requiredBeds |-> caseData.numberOfPatients,
                          requiredServices |-> getRequiredServicesForCase(caseData)]
    /\ ret' = <<>>
    /\ UNCHANGED hook
    /\ UNCHANGED <<cases, hospitals, pc, placeGroups, gi, usedCapacity,
                   placeToHospital, result, tierOf, usedBefore, runs, heap, last>>

\* lines 256-277
FindBackup ==
    /\ call.fn = "findBackupHospital"
    /\ ret = <<>>
    /\ ret' = <<findBackupHospital(call.lat, hospitals, call.excludeHospitalName,
                                   call.requiredBeds, call.requiredServices)>>
    /\ hospitals' = hospitalsAfterSort(call.lat, 1, hospitals)
    /\ UNCHANGED hook
    /\ UNCHANGED <<cases, pc, placeGroups, gi, usedCapacity, placeToHospital,
                   result, tierOf, usedBefore, runs, heap, call, last>>

\* passes over hospitals with one bed or none, and the modal afterwards
InitDispatch ==
    \E n \in 0..MaxCases, m \in 0..MaxHospitals :
        \E f \in [1..n -> CaseFields({"Medina", "Gueliz"}, {0, 1}, {"severe"},
                                      {1}, {<<>>, <<"Burn">>}, {NULL})],
           g \in [1..m -> SmallHospitalFields({{"cardiology"}})] :
            Start(CaseList(f), HospitalList(g))

NextDispatch == Next \/ OpenCase \/ FindBackup

SpecDispatch == InitDispatch /\ [][NextDispatch]_vars

\* no pass under way: the state of a call of one of the other functions
\* on the hospital list hs
StartCall(hs, c) ==
    /\ cases = <<>>
    /\ hospitals = hs
    /\ pc = "idle"
    /\ placeGroups = <<>>
    /\ gi = 1
    /\ usedCapacity = EmptyMap
    /\ placeToHospital = EmptyMap
    /\ result = <<>>
    /\ tierOf = EmptyMap
    /\ usedBefore = EmptyMap
    /\ runs = <<>>
    /\ heap = <<>>
    /\ call = c
    /\ ret = <<>>
    /\ last = NoCall
    /\ loading = FALSE
    /\ reports = <<>>
    /\ pending = <<>>
    /\ viaSSE = {}

\* the calls of findBackupHospital on up to MaxHospitals hospitals, with or
\* without a hospital to exclude
InitBackup ==
    \E m \in 0..MaxHospitals :
        \E g \in [1..m -> SmallHospitalFields({{}, {"cardiology"}})],
           lat \in {0, 1},
           excludeHospitalName \in {NULL, "H1", "H2"},
           requiredBeds \in {0, 1, 2},
           requiredServices \in {{}, {"cardiology"}} :
            StartCall(HospitalList(g),
                      [fn |-> "findBackupHospital",
                       lat |-> lat,
                       excludeHospitalName |-> excludeHospitalName,
                       requiredBeds |-> requiredBeds,
                       requiredServices |-> requiredServices])

SpecBackup == InitBackup /\ [][FindBackup]_vars

----------------------------------------------------------------------------
(* api.ts: computeOccupancyPercentage.  The code computes in doubles; the  *)
(* model computes the same expressions exactly, on fractions num / den     *)
(* with den > 0 kept in lowest terms.                                      *)

RECURSIVE GCD(_, _)
GCD(a, b) == IF b = 0 THEN a ELSE GCD(b, a % b)

\* the number n / d, d > 0
Q(n, d) == LET g == GCD(Abs(n), d) IN [num |-> n \div g, den |-> d \div g]

QAdd(a, b) == Q(a.num * b.den + b.num * a.den, a.den * b.den)

QSub(a, b) == Q(a.num * b.den - b.num * a.den, a.den * b.den)

QMul(a, b) == Q(a.num * b.num, a.den * b.den)

QLeq(a, b) == a.num * b.den <= b.num * a.den

MathMin(a, b) == IF QLeq(a, b) THEN a ELSE b

MathMax(a, b) == IF QLeq(a, b) THEN b ELSE a

\* mutant: Math.ceil
MathRoundUp(a) == (a.num + a.den - 1) \div a.den

\* Math.round: the nearest integer, halves upwards
MathRound(a) == (2 * a.num + a.den) \div (2 * a.den)

LAB_PHARMACY_MAX == 10

\* the used fraction of a bed pool (lines 101-110)
bedsUsed(pool) ==
    IF pool.total > 0 THEN Q(pool.total - pool.available, pool.total) ELSE Q(0, 1)

\* the used fraction of the lab or pharmacy slots (lines 111-112)
slotsUsed(available) ==
    MathMin(Q(1, 1), QSub(Q(1, 1), Q(available, LAB_PHARMACY_MAX)))

\* lines 114-119
weightedOccupancy(h) ==
    QAdd(QAdd(QAdd(QAdd(QMul(bedsUsed(h.emergencyBeds), Q(35, 100)),
                        QMul(bedsUsed(h.icuBeds), Q(25, 100))),
                   QMul(bedsUsed(h.pediatricsBeds), Q(2, 10))),
              QMul(slotsUsed(h.labAvailable), Q(1, 10))),
         QMul(slotsUsed(h.pharmacyAvailable), Q(1, 10)))

\* mutant: without the clamp
clampPercentageNone(x) == x

\* Math.min(100, Math.max(0, x))
clampPercentage(x) == MathMin(Q(100, 1), MathMax(Q(0, 1), x))

computeOccupancyPercentage(h) ==
    MathRound(clampPercentage(QMul(weightedOccupancy(h), Q(100, 1))))

\* bed pools with 0 <= available <= total: every small pool, and a large
\* ward that is full or has one bed free
BedPools ==
    {pool \in [available : 0..MaxBedTotal, total : 0..MaxBedTotal] :
        pool.available <= pool.total}
    \cup {[available |-> a, total |-> LargePool] : a \in {0, 1}}

\* lab and pharmacy counts up to, at and above the assumed maximum
SlotCounts == {0, 1, LAB_PHARMACY_MAX, LAB_PHARMACY_MAX + 1, 2 * LAB_PHARMACY_MAX}

\* the fields of a Hospital that computeOccupancyPercentage reads
OccupancyFields ==
    [emergencyBeds : BedPools, icuBeds : BedPools, pediatricsBeds : BedPools,
     labAvailable : SlotCounts, pharmacyAvailable : SlotCounts]

\* Hospitals.tsx 180: the page computes the occupancy of a hospital
InitOccupancy ==
    \E h \in OccupancyFields :
        StartCall(<<>>, [fn |-> "computeOccupancyPercentage", h |-> h])

\* lines 100-121
ComputeOccupancy ==
    /\ call.fn = "computeOccupancyPercentage"
    /\ ret = <<>>
    /\ ret' = <<computeOccupancyPercentage(call.h)>>
    /\ UNCHANGED hook
    /\ UNCHANGED <<cases, hospitals, pc, placeGroups, gi, usedCapacity,
                   placeToHospital, result, tierOf, usedBefore, runs, heap, call, last>>

\* the lab or pharmacy count of the hospital changes and the page computes
\* the occupancy again
Restock ==
    /\ call.fn = "computeOccupancyPercentage"
    /\ Len(ret) = 1
    /\ last = NoCall
    /\ \E slots \in {"labAvailable", "pharmacyAvailable"}, n \in SlotCounts :
          /\ call.h[slots] # n
          /\ call' = [call EXCEPT !.h = [call.h EXCEPT ![slots] = n]]
    /\ last' = [fn |-> call.fn, h |-> call.h, ret |-> ret[1]]
    /\ ret' = <<>>
    /\ UNCHANGED hook
    /\ UNCHANGED <<cases, hospitals, pc, placeGroups, gi, usedCapacity,
                   placeToHospital, result, tierOf, usedBefore, runs, heap>>

NextOccupancy == ComputeOccupancy \/ Restock

SpecOccupancy == InitOccupancy /\ [][NextOccupancy]_vars

----------------------------------------------------------------------------
(* api.ts: getOccupiedLevelFromPercentage *)

\* mutant: the thresholds compared with >
getOccupiedLevelFromPercentageStrict(occupancyPct) ==
    IF occupancyPct > 75 THEN "critical"
    ELSE IF occupancyPct > 50 THEN "high"
    ELSE IF occupancyPct > 25 THEN "moderate"
    ELSE "low"

getOccupiedLevelFromPercentage(occupancyPct) ==
    IF occupancyPct >= 75 THEN "critical"
    ELSE IF occupancyPct >= 50 THEN "high"
    ELSE IF occupancyPct >= 25 THEN "moderate"
    ELSE "low"

\* Hospitals.tsx 181: the page asks for the level of a percentage
InitLevel ==
    \E occupancyPct \in 0..100 :
        StartCall(<<>>, [fn |-> "getOccupiedLevelFromPercentage",
                         occupancyPct |-> occupancyPct])

\* lines 124-129
GetLevel ==
    /\ call.fn = "getOccupiedLevelFromPercentage"
    /\ ret = <<>>
    /\ ret' = <<getOccupiedLevelFromPercentage(call.occupancyPct)>>
    /\ UNCHANGED hook
    /\ UNCHANGED <<cases, hospitals, pc, placeGroups, gi, usedCapacity,
                   placeToHospital, result, tierOf, usedBefore, runs, heap, call, last>>

\* the occupancy rises and the page asks for the level again
RaisePct ==
    /\ call.fn = "getOccupiedLevelFromPercentage"
    /\ Len(ret) = 1
    /\ \E occupancyPct \in (call.occupancyPct + 1)..100 :
          call' = [call EXCEPT !.occupancyPct = occupancyPct]
    /\ last' = [fn |-> call.fn, occupancyPct |-> call.occupancyPct, ret |-> ret[1]]
    /\ ret' = <<>>
    /\ UNCHANGED hook
    /\ UNCHANGED <<cases, hospitals, pc, placeGroups, gi, usedCapacity,
                   placeToHospital, result, tierOf, usedBefore, runs, heap>>

NextLevel == GetLevel \/ RaisePct

SpecLevel == InitLevel /\ [][NextLevel]_vars

----------------------------------------------------------------------------
(* api.ts: getEffectiveServiceAvailability.  h[k] === true is k \in         *)
(* h.services; the name of the hospital of line 181 is written in ASCII.   *)

SERVICE_KEYS_ORDER ==
    <<"traumaUnit", "cardiology", "pediatrics", "neurosurgery", "radiology",
      "laboratory", "pharmacy", "burnUnit", "orthopedics", "ophthalmology">>

HospitalServiceKey == {SERVICE_KEYS_ORDER[i] : i \in 1..Len(SERVICE_KEYS_ORDER)}

\* mutant: the two capabilities of Ibn Tofail are forced before the test of
\* the flag
serviceResultForced(offered, isIbnTofail, k, normallyAvailable) ==
    IF isIbnTofail /\ k \in {"traumaUnit", "cardiology"} THEN TRUE
    ELSE IF ~offered THEN FALSE
    ELSE normallyAvailable

\* lines 184-189: result[k]
serviceResult(offered, isIbnTofail, k, normallyAvailable) ==
    IF ~offered THEN FALSE
    ELSE IF isIbnTofail /\ k \in {"traumaUnit", "cardiology"} THEN TRUE
    ELSE normallyAvailable

getEffectiveServiceAvailability(h, occupancyPct) ==
    LET keys == 1..Len(SERVICE_KEYS_ORDER)
        offeredCount == Cardinality({i \in keys : SERVICE_KEYS_ORDER[i] \in h.services})
        numOverloaded == MinOf({offeredCount, (offeredCount * occupancyPct) \div 100})
        isIbnTofail == h.id = "h2" \/ h.name = "Hopital Ibn Tofail"
        \* overloadedSoFar when the loop reaches key i
        overloadedSoFar(i) ==
            Cardinality({j \in 1..(i - 1) : SERVICE_KEYS_ORDER[j] \in h.services})
    IN  [k \in HospitalServiceKey |->
            LET i == CHOOSE j \in keys : SERVICE_KEYS_ORDER[j] = k
            IN  serviceResult(k \in h.services, isIbnTofail, k,
                              overloadedSoFar(i) >= numOverloaded)]

\* the hospitals of the registry by id and name, and two that share only
\* the id or only the name of Ibn Tofail
HospitalIdentities ==
    {[id |-> "h1", name |-> "CHU Mohammed VI"],
     [id |-> "h2", name |-> "Hopital Ibn Tofail"],
     [id |-> "h2", name |-> "Clinique Al Farabi"],
     [id |-> "h7", name |-> "Hopital Ibn Tofail"]}

\* capability sets: every choice among five keys, the flags of Ibn Tofail
\* in the registry, and all ten
OfferedSets ==
    (SUBSET {"traumaUnit", "cardiology", "pediatrics", "radiology", "ophthalmology"})
    \cup {{"traumaUnit", "cardiology", "pediatrics", "radiology", "laboratory",
           "pharmacy", "orthopedics"},
          HospitalServiceKey}

\* Hospitals.tsx 303: the page asks which capabilities of a hospital are
\* available at an occupancy percentage
InitAvailability ==
    \E who \in HospitalIdentities, services \in OfferedSets, occupancyPct \in 0..100 :
        StartCall(<<>>, [fn |-> "getEffectiveServiceAvailability",
                         h |-> [id |-> who.id, name |-> who.name, services |-> services],
                         occupancyPct |-> occupancyPct])

\* lines 174-194
GetAvailability ==
    /\ call.fn = "getEffectiveServiceAvailability"
    /\ ret = <<>>
    /\ ret' = <<getEffectiveServiceAvailability(call.h, call.occupancyPct)>>
    /\ UNCHANGED hook
    /\ UNCHANGED <<cases, hospitals, pc, placeGroups, gi, usedCapacity,
                   placeToHospital, result, tierOf, usedBefore, runs, heap, call, last>>

SpecAvailability == InitAvailability /\ [][GetAvailability]_vars

----------------------------------------------------------------------------
(* lib/dangerColors.ts: getDangerColor *)

\* mutant: the thresholds compared with >
getDangerColorStrict(totalVictims) ==
    IF totalVictims > 9 THEN "red"
    ELSE IF totalVictims > 6 THEN "orange"
    ELSE IF totalVictims > 3 THEN "yellow"
    ELSE "green"

getDangerColor(totalVictims) ==
    IF totalVictims >= 9 THEN "red"
    ELSE IF totalVictims >= 6 THEN "orange"
    ELSE IF totalVictims >= 3 THEN "yellow"
    ELSE "green"

\* CriticalCasesBox.tsx 98: the box asks for the color of a victim count
InitDanger ==
    \E totalVictims \in 0..MaxDangerVictims :
        StartCall(<<>>, [fn |-> "getDangerColor", totalVictims |-> totalVictims])

\* lines 11-16
GetDangerColor ==
    /\ call.fn = "getDangerColor"
    /\ ret = <<>>
    /\ ret' = <<getDangerColor(call.totalVictims)>>
    /\ UNCHANGED hook
    /\ UNCHANGED <<cases, hospitals, pc, placeGroups, gi, usedCapacity,
                   placeToHospital, result, tierOf, usedBefore, runs, heap, call, last>>

\* more victims are reported and the box asks for the color again
MoreVictims ==
    /\ call.fn = "getDangerColor"
    /\ Len(ret) = 1
    /\ \E totalVictims \in (call.totalVictims + 1)..MaxDangerVictims :
          call' = [call EXCEPT !.totalVictims = totalVictims]
    /\ last' = [fn |-> call.fn, totalVictims |-> call.totalVictims, ret |-> ret[1]]
    /\ ret' = <<>>
    /\ UNCHANGED hook
    /\ UNCHANGED <<cases, hospitals, pc, placeGroups, gi, usedCapacity,
                   placeToHospital, result, tierOf, usedBefore, runs, heap>>

NextDanger == GetDangerColor \/ MoreVictims

SpecDanger == InitDanger /\ [][NextDanger]_vars

----------------------------------------------------------------------------
(* useLiveCases (src/unnamed/part_003) over fetchCases and                 *)
(* subscribeToCases of api.ts.  A case of the hook is its id and severity; *)
(* the backend is the list of the cases of its reports.  A call of refresh *)
(* is under way from its fetch to the setCases after the await; the SSE    *)
(* callback runs whole between the steps of the calls under way.           *)

\* the ids of the reports of the backend
LiveIds == {CaseIds[i] : i \in 1..MaxLive}

LiveSeverities == {"critical", "mild"}

\* api.ts 533-535
sortCasesBySeverity(cs) ==
    LET rank(i) == severityOrder[cs[i].severity]
    IN  StableSort(cs, {ij \in (1..Len(cs)) \X (1..Len(cs)) : rank(ij[1]) - rank(ij[2]) < 0})

\* api.ts 581: a critical and a mild demo case
DEMO_CASES ==
    sortCasesBySeverity(<<[id |-> "DEMO-CRIT-01", severity |-> "critical"],
                          [id |-> "DEMO-MILD-01", severity |-> "mild"]>>)

\* byId.set(c.id, c), the Map kept as the list of its values in insertion
\* order: a key that is there keeps its place
byIdSet(byId, c) ==
    IF \E i \in 1..Len(byId) : byId[i].id = c.id
    THEN [i \in 1..Len(byId) |-> IF byId[i].id = c.id THEN c ELSE byId[i]]
    ELSE Append(byId, c)

\* the Map byId after byId.set(c.id, c) for every case c of cs in turn
RECURSIVE byIdSetAll(_, _)
byIdSetAll(byId, cs) ==
    IF cs = <<>> THEN byId ELSE byIdSetAll(byIdSet(byId, Head(cs)), Tail(cs))

\* part_003 6-12
mergeWithDemoCases(apiCases) ==
    sortCasesBySeverity(byIdSetAll(byIdSetAll(<<>>, DEMO_CASES), apiCases))

\* part_003 42-46: the update the SSE callback hands to setCases
onNewCase(prev, newCase) ==
    sortCasesBySeverity(byIdSet(byIdSetAll(<<>>, prev), newCase))

\* api.ts 591-602: the sorted cases of the response, and [] from the catch
\* when the request fails or the status is not OK
fetchCases(ok, rs) == IF ok THEN sortCasesBySeverity(rs) ELSE <<>>

\* the state the hook leaves alone
outsideHook == <<hospitals, pc, placeGroups, gi, usedCapacity, placeToHospital,
                 result, tierOf, usedBefore, runs, heap, call, ret, last>>

\* a refresh that has called fetchCases and awaits it
Fetching == [pc |-> "fetch", ok |-> TRUE, data |-> <<>>]

\* the hook after its first render and effect: the demo cases, loading,
\* and the initial refresh under way, over a backend that holds rs
StartLive(rs) ==
    /\ cases = DEMO_CASES
    /\ loading = TRUE
    /\ reports = rs
    /\ pending = <<Fetching>>
    /\ viaSSE = {}
    /\ hospitals = <<>>
    /\ pc = "idle"
    /\ placeGroups = <<>>
    /\ gi = 1
    /\ usedCapacity = EmptyMap
    /\ placeToHospital = EmptyMap
    /\ result = <<>>
    /\ tierOf = EmptyMap
    /\ usedBefore = EmptyMap
    /\ runs = <<>>
    /\ heap = <<>>
    /\ call = NoCall
    /\ ret = <<>>
    /\ last = NoCall

InitLive ==
    \/ StartLive(<<>>)
    \/ \E id \in LiveIds, severity \in LiveSeverities :
          StartLive(<<[id |-> id, severity |-> severity]>>)

\* part_003 38: the interval fires and refresh runs up to its await
Tick ==
    /\ Len(pending) < MaxPending
    /\ pending' = Append(pending, Fetching)
    /\ UNCHANGED <<cases, loading, reports, viaSSE>>
    /\ UNCHANGED outsideHook

\* api.ts 591-602: the request of the i-th refresh under way is answered
\* with the reports the backend holds now, or fails
Respond(i) ==
    /\ pending[i].pc = "fetch"
    /\ \E ok \in BOOLEAN :
          pending' = [pending EXCEPT
                          ![i] = [pc |-> "got", ok |-> ok, data |-> fetchCases(ok, reports)]]
    /\ UNCHANGED <<cases, loading, reports, viaSSE>>
    /\ UNCHANGED outsideHook

\* part_003 24-30: the i-th refresh under way resumes after its await
Settle(i) ==
    /\ pending[i].pc = "got"
    /\ cases' = mergeWithDemoCases(pending[i].data)
    /\ loading' = FALSE
    /\ pending' = [k \in 1..(Len(pending) - 1) |->
                      IF k < i THEN pending[k] ELSE pending[k + 1]]
    /\ UNCHANGED <<reports, viaSSE>>
    /\ UNCHANGED outsideHook

\* api.ts 610-616, part_003 41-47: the backend takes a report of a new id
\* and its new_report event reaches the callback
NewReport ==
    /\ \E id \in LiveIds, severity \in LiveSeverities :
          LET newCase == [id |-> id, severity |-> severity]
          IN  /\ \A i \in 1..Len(reports) : reports[i].id # id
              /\ reports' = Append(reports, newCase)
              /\ cases' = onNewCase(cases, newCase)
              /\ viaSSE' = viaSSE \cup {id}
    /\ UNCHANGED <<loading, pending>>
    /\ UNCHANGED outsideHook

\* api.ts 618-624, part_003 41-47: the backend changes the severity of a
\* report and its report_update event reaches the callback
ReportUpdate ==
    /\ \E i \in 1..Len(reports), severity \in LiveSeverities :
          LET newCase == [id |-> reports[i].id, severity |-> severity]
          IN  /\ reports[i].severity # severity
              /\ reports' = [reports EXCEPT ![i] = newCase]
              /\ cases' = onNewCase(cases, newCase)
              /\ viaSSE' = viaSSE \cup {newCase.id}
    /\ UNCHANGED <<loading, pending>>
    /\ UNCHANGED outsideHook

NextLive ==
    \/ Tick
    \/ \E i \in 1..Len(pending) : Respond(i)
    \/ \E i \in 1..Len(pending) : Settle(i)
    \/ NewReport
    \/ ReportUpdate

SpecLive == InitLive /\ [][NextLive]_vars

----------------------------------------------------------------------------
(* Vocabulary of the properties *)

Done == pc = "done"

HospitalNameSet == {hospitals[k].name : k \in 1..Len(hospitals)}

\* the groups the loop has processed so far
Processed == IF pc \in {"assign", "done"} /\ Len(hospitals) # 0
             THEN 1..(gi - 1) ELSE {}

----------------------------------------------------------------------------
(* C1: with at least one hospital in the list, every returned case has a   *)
(* non-null assignedHospital that is the name of a hospital of the list.   *)
C1_Total ==
    (Done /\ Len(hospitals) >= 1) =>
        /\ Len(result) = Len(cases)
        /\ \A i \in 1..Len(result) :
              /\ result[i].assignedHospital # NULL
              /\ result[i].assignedHospital \in HospitalNameSet

\* a pass that ended with a group placed by the last resort: no hospital
\* had the beds, none had the capabilities
C1_Witness ==
    /\ Done
    /\ Len(hospitals) >= 1
    /\ \E i \in 1..Len(result) :
          /\ MapGet(tierOf, cases[i].placeName, 0) = 4
          /\ result[i].assignedHospital \in HospitalNameSet

(* C2: with an empty hospital list, every case is returned with            *)
(* assignedHospital = null, and the pass ends normally.                    *)
C2_NoHospitals ==
    /\ (pc = "start" /\ Len(hospitals) = 0) => ENABLED EarlyExit
    /\ (Done /\ Len(hospitals) = 0) =>
          /\ Len(result) = Len(cases)
          /\ \A i \in 1..Len(result) :
                /\ result[i].assignedHospital = NULL
                /\ result[i].id = cases[i].id

\* a pass without hospitals over cases that came in with a hospital
C2_Witness ==
    /\ Done
    /\ Len(hospitals) = 0
    /\ \E i \in 1..Len(cases) : cases[i].assignedHospital # NULL
    /\ \A i \in 1..Len(result) : result[i].assignedHospital = NULL

---------------------------------------------------------------------------------------------------------------------------------------------------
(* Tiers.  After a step of the loop, group gi - 1 is the group the step    *)
(* processed, usedBefore the ledger its search read, and placeToHospital   *)
(* holds its hospital.  Every group is the last processed one in some      *)
(* state, so an invariant about the last processed group is about all.     *)

Sorted == pc \in {"assign", "done"} /\ Len(hospitals) # 0

Stepped == Sorted /\ gi > 1

LastGroup == placeGroups[gi - 1]

HospitalIdx == 1..Len(hospitals)

\* available emergency beds minus the ledger consumption
bedsLeft(k, used) ==
    hospitals[k].emergencyBeds.available - MapGet(used, hospitals[k].name, 0)

\* the same, counted as no less than zero
bedsLeftFloored(k, used) == IF bedsLeft(k, used) < 0 THEN 0 ELSE bedsLeft(k, used)

Offers(k, g) == g.requiredServices \subseteq hospitals[k].services

Dist(k, g) == haversineKm(g.latSum, g.count, hospitals[k].latitude)

\* k is the nearest hospital of S for g, the first of the list among the
\* equally near
IsNearestOf(k, S, g) ==
    /\ k \in S
    /\ \A j \in S : Dist(k, g) < Dist(j, g) \/ (Dist(k, g) = Dist(j, g) /\ k <= j)

\* the last processed group has the nearest hospital of S
LastAssignedNearestOf(S) ==
    \E k \in S : /\ IsNearestOf(k, S, LastGroup)
                 /\ MapGet(placeToHospital, LastGroup.placeName, NULL) = hospitals[k].name

\* a processed group, by its index in placeGroups
GroupHospital(n) == MapGet(placeToHospital, placeGroups[n].placeName, NULL)

GroupTier(n) == MapGet(tierOf, placeGroups[n].placeName, 0)

\* the hospital of the list that bears the name
IdxOfName(name) == CHOOSE k \in HospitalIdx : hospitals[k].name = name

\* the hospitals with the beds for the last group, and those with the
\* beds and the capabilities; beds(k) is the count of beds left
WithBedsAsStated ==
    {k \in HospitalIdx : bedsLeft(k, usedBefore) >= LastGroup.totalVictims}

WithBedsFloored ==
    {k \in HospitalIdx : bedsLeftFloored(k, usedBefore) >= LastGroup.totalVictims}

WithServices == {k \in HospitalIdx : Offers(k, LastGroup)}

(* C3 as stated: a group goes to the nearest hospital whose available beds *)
(* minus its ledger entry are >= the group's victims and that offers every *)
(* required capability, whenever there is one.                             *)
C3_AsStated ==
    Stepped =>
        LET S == WithBedsAsStated \cap WithServices
        IN  S # {} => LastAssignedNearestOf(S)

(* C3, amended: the same with the beds left counted as no less than zero   *)
(* (a hospital committed beyond its beds has zero beds left, which is      *)
(* enough for a group of zero victims).                                    *)
C3_Tier1 ==
    Stepped =>
        LET S == WithBedsFloored \cap WithServices
        IN  S # {} => LastAssignedNearestOf(S)

\* a group placed by the first loop in a hospital that is not the nearest:
\* a nearer one was passed over
C3_Witness ==
    /\ Stepped
    /\ GroupTier(gi - 1) = 1
    /\ GroupHospital(gi - 1) \in HospitalNameSet
    /\ WithBedsFloored \cap WithServices # {}
    /\ \E j \in HospitalIdx :
          Dist(j, LastGroup) < Dist(IdxOfName(GroupHospital(gi - 1)), LastGroup)

(* C4 as stated: when no hospital passes tier 1 but one has available beds *)
(* minus ledger >= the victims, the group goes to the nearest such         *)
(* hospital, whatever it offers.                                           *)
C4_AsStated ==
    Stepped =>
        ((WithBedsAsStated \cap WithServices = {} /\ WithBedsAsStated # {})
            => LastAssignedNearestOf(WithBedsAsStated))

(* C4, amended: the same with the beds left counted as no less than zero.  *)
C4_Tier2 ==
    Stepped =>
        ((WithBedsFloored \cap WithServices = {} /\ WithBedsFloored # {})
            => LastAssignedNearestOf(WithBedsFloored))

\* a group placed by the second loop in a hospital that lacks one of its
\* required capabilities
C4_Witness ==
    /\ Stepped
    /\ GroupTier(gi - 1) = 2
    /\ WithBedsFloored \cap WithServices = {}
    /\ GroupHospital(gi - 1) \in HospitalNameSet
    /\ ~Offers(IdxOfName(GroupHospital(gi - 1)), LastGroup)

(* C5: when no hospital has the beds for a group (available minus ledger   *)
(* below the victims everywhere) but some hospital offers every required   *)
(* capability, the group goes to the nearest hospital that offers them,    *)
(* whatever beds it has left.                                              *)
C5_Tier3 ==
    Stepped =>
        ((WithBedsAsStated = {} /\ WithServices # {})
            => LastAssignedNearestOf(WithServices))

\* a group placed by the third loop, the ledger of its hospital now above
\* the hospital's available beds, and a nearer hospital passed over
C5_Witness ==
    /\ Stepped
    /\ GroupTier(gi - 1) = 3
    /\ WithBedsAsStated = {}
    /\ GroupHospital(gi - 1) \in HospitalNameSet
    /\ LET k == IdxOfName(GroupHospital(gi - 1))
       IN  /\ MapGet(usedCapacity, hospitals[k].name, 0)
                  > hospitals[k].emergencyBeds.available
           /\ \E j \in HospitalIdx : Dist(j, LastGroup) < Dist(k, LastGroup)

(* C6: when no hospital has the beds for a group and none offers every     *)
(* required capability, the group goes to the nearest hospital of the      *)
(* list, the first in input order among the equally near.                  *)
C6_Tier4 ==
    Stepped =>
        ((WithBedsAsStated = {} /\ WithServices = {})
            => LastAssignedNearestOf(HospitalIdx))

\* a group placed by the final return in the second hospital of the list,
\* which is strictly nearer than the first
C6_Witness ==
    /\ Stepped
    /\ GroupTier(gi - 1) = 4
    /\ WithBedsAsStated = {} /\ WithServices = {}
    /\ Len(hospitals) >= 2
    /\ GroupHospital(gi - 1) = hospitals[2].name

-----
(* Groups, read off the input case list *)

CaseIdx == 1..Len(cases)

PlacesOfCases == {cases[i].placeName : i \in CaseIdx}

MembersOf(p) == {i \in CaseIdx : cases[i].placeName = p}

\* the minimum severity rank among the cases of place p
PlaceWorst(p) ==
    CHOOSE r \in 0..3 :
        /\ \E i \in MembersOf(p) : severityOrder[cases[i].severity] = r
        /\ \A i \in MembersOf(p) : severityOrder[cases[i].severity] >= r

\* the victims of place p
RECURSIVE VictimsUpTo(_, _)
VictimsUpTo(p, n) ==
    IF n = 0 THEN 0
    ELSE VictimsUpTo(p, n - 1)
         + (IF cases[n].placeName = p THEN cases[n].numberOfPatients ELSE 0)

PlaceVictims(p) == VictimsUpTo(p, Len(cases))

\* where place p first appears in the input
PlaceFirst(p) == CHOOSE i \in MembersOf(p) : \A j \in MembersOf(p) : i <= j

\* place p is processed before place q
Precedes(p, q) ==
    \/ PlaceWorst(p) < PlaceWorst(q)
    \/ PlaceWorst(p) = PlaceWorst(q) /\ PlaceVictims(p) > PlaceVictims(q)
    \/ /\ PlaceWorst(p) = PlaceWorst(q)
       /\ PlaceVictims(p) = PlaceVictims(q)
       /\ PlaceFirst(p) < PlaceFirst(q)

(* C7: the groups are processed, and commit beds, in ascending order of the *)
(* minimum severity rank of their cases, then descending total victims,    *)
(* then in the order in which their place first appears in the input.      *)
C7_Order ==
    Sorted =>
        /\ Len(placeGroups) = Cardinality(PlacesOfCases)
        /\ {placeGroups[n].placeName : n \in 1..Len(placeGroups)} = PlacesOfCases
        /\ \A n, m \in 1..Len(placeGroups) :
              n < m => Precedes(placeGroups[n].placeName, placeGroups[m].placeName)
        /\ DOMAIN placeToHospital = {placeGroups[n].placeName : n \in 1..(gi - 1)}

\* three groups all processed, one moved ahead of a place that appears
\* earlier in the input because it has more victims, and two left in input
\* order because they tie on severity and victims
C7_Witness ==
    /\ Done
    /\ Len(placeGroups) = 3
    /\ \E n, m \in 1..3 :
          /\ n < m
          /\ PlaceFirst(placeGroups[n].placeName) > PlaceFirst(placeGroups[m].placeName)
          /\ PlaceWorst(placeGroups[n].placeName) = PlaceWorst(placeGroups[m].placeName)
          /\ PlaceVictims(placeGroups[n].placeName) > PlaceVictims(placeGroups[m].placeName)
    /\ \E n, m \in 1..3 :
          /\ n < m
          /\ PlaceWorst(placeGroups[n].placeName) = PlaceWorst(placeGroups[m].placeName)
          /\ PlaceVictims(placeGroups[n].placeName) = PlaceVictims(placeGroups[m].placeName)

----------------------------------------------------------------------------
(* The ledger *)

Ledger(name) == MapGet(usedCapacity, name, 0)

\* the victims of the processed groups among 1..n that went to the hospital
\* and whose tier is in T
RECURSIVE CommittedUpTo(_, _, _)
CommittedUpTo(name, T, n) ==
    IF n = 0 THEN 0
    ELSE CommittedUpTo(name, T, n - 1)
         + (IF GroupHospital(n) = name /\ GroupTier(n) \in T
            THEN PlaceVictims(placeGroups[n].placeName) ELSE 0)

Committed(name, T) == CommittedUpTo(name, T, Cardinality(Processed))

(* C8: at every step of a pass each ledger entry is non-negative, is no   *)
(* less than it was before the last processed group, and equals the sum of *)
(* the victims of the groups assigned to that hospital so far (at the end: *)
(* of all the groups assigned to it).                                      *)
C8_Ledger ==
    Sorted =>
        /\ DOMAIN usedCapacity \subseteq HospitalNameSet
        /\ \A name \in HospitalNameSet :
              /\ Ledger(name) >= 0
              /\ Ledger(name) >= MapGet(usedBefore, name, 0)
              /\ Ledger(name) = Committed(name, 1..4)

\* the end of a pass in which one hospital received two groups with
\* victims, its ledger being their sum
C8_Witness ==
    /\ Done
    /\ \E name \in HospitalNameSet :
          /\ \E n, m \in Processed :
                /\ n # m
                /\ GroupHospital(n) = name /\ GroupHospital(m) = name
                /\ placeGroups[n].totalVictims > 0
                /\ placeGroups[m].totalVictims > 0
          /\ Ledger(name) = Committed(name, 1..4)
          /\ Ledger(name) >= 2

(* C9: for every hospital, at every point of a pass, the victims of the    *)
(* groups assigned to it through tier 1 or 2 never exceed its available    *)
(* emergency beds, and its ledger exceeds them only if some group was      *)
(* assigned to it through tier 3 or 4.                                     *)
C9_NoDoubleBooking ==
    Sorted =>
        \A k \in HospitalIdx :
            /\ Committed(hospitals[k].name, {1, 2}) <= hospitals[k].emergencyBeds.available
            /\ Ledger(hospitals[k].name) > hospitals[k].emergencyBeds.available
                  => \E n \in Processed : /\ GroupHospital(n) = hospitals[k].name
                                          /\ GroupTier(n) \in {3, 4}

\* two groups want the same strictly nearest hospital, which has the beds
\* for either alone: the first takes them through tier 1 or 2, the second
\* is sent elsewhere through tier 1 or 2
C9_Witness ==
    \E n, m \in Processed, k \in HospitalIdx :
        /\ n < m
        /\ \A j \in HospitalIdx \ {k} :
              /\ Dist(k, placeGroups[n]) < Dist(j, placeGroups[n])
              /\ Dist(k, placeGroups[m]) < Dist(j, placeGroups[m])
        /\ placeGroups[n].totalVictims > 0
        /\ placeGroups[m].totalVictims > 0
        /\ hospitals[k].emergencyBeds.available >= placeGroups[m].totalVictims
        /\ GroupHospital(n) = hospitals[k].name
        /\ GroupTier(n) \in {1, 2}
        /\ GroupHospital(m) # hospitals[k].name
        /\ GroupTier(m) \in {1, 2}

(* C10: in the result of a pass, two cases with the same placeName have    *)
(* the same assignedHospital.                                              *)
C10_SamePlaceSameHospital ==
    Done =>
        /\ Len(result) = Len(cases)
        /\ \A i, j \in 1..Len(result) :
              /\ result[i].placeName = cases[i].placeName
              /\ result[i].placeName = result[j].placeName
                    => result[i].assignedHospital = result[j].assignedHospital

\* two cases of one place that differ in severity and victims share a
\* hospital, and a case of another place has another hospital
C10_Witness ==
    /\ Done
    /\ \E i, j, l \in 1..Len(result) :
          /\ i # j
          /\ result[i].placeName = result[j].placeName
          /\ result[i].severity # result[j].severity
          /\ result[i].numberOfPatients # result[j].numberOfPatients
          /\ result[i].assignedHospital # NULL
          /\ result[i].assignedHospital = result[j].assignedHospital
          /\ result[l].assignedHospital \notin {NULL, result[i].assignedHospital}

----------------------------------------------------------------------------
(* C11: every pass has an empty ledger of its own.  With two passes under  *)
(* way, one after the other or with their loop iterations interleaved, the *)
(* ledger and the place map of each pass are at every iteration what they  *)
(* would be had the pass run alone from an empty ledger, the two passes    *)
(* hold different ledgers, and the result of each pass is the result of    *)
(* the pass on its (cases, hospitals) alone.                               *)
C11_OwnLedger ==
    /\ \A p \in Passes :
          LET r == runs[p]
          IN  /\ (r.pc \in {"assign", "done"} /\ Len(r.hospitals) # 0) =>
                    LET alone == passAfter(r.placeGroups, r.hospitals, r.gi - 1)
                    IN  /\ heap[r.usedCapacity] = alone.usedCapacity
                        /\ r.placeToHospital = alone.placeToHospital
              /\ r.pc = "done" => r.result = assignCasesToHospitals(r.cases, r.hospitals)
    /\ (runs[1].usedCapacity # 0 /\ runs[2].usedCapacity # 0)
          => runs[1].usedCapacity # runs[2].usedCapacity

\* both passes are halfway through their loops, each has committed the one
\* bed of H1 to its first group and has a second group to place
C11_Witness ==
    \A p \in Passes :
        /\ runs[p].pc = "assign"
        /\ runs[p].gi = 2
        /\ Len(runs[p].placeGroups) = 2
        /\ MapGet(heap[runs[p].usedCapacity], "H1", 0) = 1

----------------------------------------------------------------------------
(* C12: no step of a pass and no call of findBackupHospital changes the    *)
(* hospital list: every record, with its bed counts and capability flags,  *)
(* stays as it was and where it was in the list.                           *)
C12_HospitalFrame == [][hospitals' = hospitals]_vars

\* after a pass that committed victims to a hospital, and a backup lookup
\* from a case for which the second hospital of the list is the nearer
C12_Witness ==
    /\ Done
    /\ Len(ret) = 1
    /\ \E name \in DOMAIN usedCapacity : usedCapacity[name] > 0
    /\ Len(hospitals) >= 2
    /\ Abs(call.lat - hospitals[2].latitude) < Abs(call.lat - hospitals[1].latitude)

----------------------------------------------------------------------------
(* C13: the assignedHospital values a pass returns do not depend on the    *)
(* assignedHospital values of its input cases: two passes over the same    *)
(* hospitals and over case lists that differ only in those values return   *)
(* the same assignedHospital for every case.                               *)
C13_Wholesale ==
    (runs[1].pc = "done" /\ runs[2].pc = "done") =>
        /\ Len(runs[1].result) = Len(runs[2].result)
        /\ \A i \in 1..Len(runs[1].result) :
              runs[1].result[i].assignedHospital = runs[2].result[i].assignedHospital

\* the two inputs differ in the hospital of a case, which comes out of both
\* passes with a third value
C13_Witness ==
    /\ runs[1].pc = "done"
    /\ runs[2].pc = "done"
    /\ \E i \in 1..Len(runs[1].cases) :
          /\ runs[1].cases[i].assignedHospital = "H2"
          /\ runs[2].cases[i].assignedHospital = NULL
          /\ runs[1].result[i].assignedHospital = "H1"
          /\ runs[2].result[i].assignedHospital = "H1"

----------------------------------------------------------------------------
(* findBackupHospital *)

\* the hospitals that qualify as a backup for the call: another name than
\* the excluded one, the beds of the record, every required capability
Qualifying ==
    {k \in HospitalIdx :
        /\ hospitals[k].name # call.excludeHospitalName
        /\ hospitals[k].emergencyBeds.available >= call.requiredBeds
        /\ call.requiredServices \subseteq hospitals[k].services}

\* k is the nearest hospital of S from the case, the first of the list
\* among the equally near
IsNearestFromCase(k, S) ==
    /\ k \in S
    /\ \A j \in S :
          \/ Abs(call.lat - hospitals[k].latitude) < Abs(call.lat - hospitals[j].latitude)
          \/ /\ Abs(call.lat - hospitals[k].latitude) = Abs(call.lat - hospitals[j].latitude)
             /\ k <= j

(* C14: findBackupHospital returns the nearest hospital (ties by input     *)
(* order) whose name is not the excluded one, whose available emergency    *)
(* beds as recorded are >= requiredBeds and which offers every required    *)
(* capability; it returns null exactly when there is none, and never the   *)
(* excluded hospital.                                                      *)
C14_Backup ==
    Len(ret) = 1 =>
        /\ (ret[1] = NoHospital) <=> (Qualifying = {})
        /\ Qualifying # {} =>
              \E k \in Qualifying : IsNearestFromCase(k, Qualifying) /\ ret[1] = hospitals[k]
        /\ ret[1] # NoHospital => ret[1].name # call.excludeHospitalName

\* the nearest hospital has the beds and the capabilities but is the
\* excluded one: the call returns a hospital farther away
C14_Witness ==
    /\ Len(ret) = 1
    /\ ret[1] # NoHospital
    /\ \E k \in HospitalIdx :
          /\ hospitals[k].name = call.excludeHospitalName
          /\ hospitals[k].emergencyBeds.available >= call.requiredBeds
          /\ call.requiredBeds > 0
          /\ call.requiredServices \subseteq hospitals[k].services
          /\ Abs(call.lat - hospitals[k].latitude) < Abs(call.lat - ret[1].latitude)

----------------------------------------------------------------------------
(* computeOccupancyPercentage *)

Returned == Len(ret) = 1

\* the bed pools of the hospital of the call
PoolsOfCall == {call.h.emergencyBeds, call.h.icuBeds, call.h.pediatricsBeds}

\* 0 <= available <= total in every bed pool, no negative slot count
ValidHospital ==
    /\ \A pool \in PoolsOfCall : 0 <= pool.available /\ pool.available <= pool.total
    /\ call.h.labAvailable >= 0
    /\ call.h.pharmacyAvailable >= 0

(* C15: for a hospital whose bed pools have 0 <= available <= total and    *)
(* whose lab and pharmacy counts are non-negative (above 10 included, and  *)
(* pools of total 0 included), computeOccupancyPercentage returns an       *)
(* integer of 0..100.                                                      *)
C15_Range ==
    (Returned /\ call.fn = "computeOccupancyPercentage" /\ ValidHospital)
        => ret[1] \in 0..100

\* every bed free and twenty slots in the lab and in the pharmacy: the
\* weighted sum is below zero and the result is 0
C15_Witness ==
    /\ Returned
    /\ ValidHospital
    /\ \A pool \in PoolsOfCall : pool.available = pool.total
    /\ call.h.labAvailable > LAB_PHARMACY_MAX
    /\ call.h.pharmacyAvailable > LAB_PHARMACY_MAX
    /\ ~QLeq(Q(0, 1), weightedOccupancy(call.h))
    /\ ret[1] = 0

\* the percentage points the free beds of the bed pools take off the
\* weighted sum: 35, 25 and 20 times the free fraction of the pools
FreeBedPoints ==
    QAdd(QAdd(Q(35 * call.h.emergencyBeds.available, call.h.emergencyBeds.total),
              Q(25 * call.h.icuBeds.available, call.h.icuBeds.total)),
         Q(20 * call.h.pediatricsBeds.available, call.h.pediatricsBeds.total))

(* C16 as stated: computeOccupancyPercentage returns 100 only if each of   *)
(* the emergency, ICU and pediatric pools has available = 0 with total > 0 *)
(* and lab and pharmacy available are both 0; a hospital with a free bed   *)
(* or slot gets less than 100.                                             *)
C16_AsStated ==
    (Returned /\ ValidHospital /\ ret[1] = 100) =>
        /\ \A pool \in PoolsOfCall : pool.available = 0 /\ pool.total > 0
        /\ call.h.labAvailable = 0
        /\ call.h.pharmacyAvailable = 0

(* C16, amended: the result is rounded to the nearest integer, so it is    *)
(* 100 only if lab and pharmacy available are both 0, every bed pool has   *)
(* total > 0 and the free beds take at most half a percentage point off    *)
(* the weighted sum.                                                       *)
C16_FullOnly ==
    (Returned /\ ValidHospital /\ ret[1] = 100) =>
        /\ \A pool \in PoolsOfCall : pool.total > 0
        /\ call.h.labAvailable = 0
        /\ call.h.pharmacyAvailable = 0
        /\ QLeq(QMul(Q(2, 1), FreeBedPoints), Q(1, 1))

\* a result of 100 for a hospital with a free emergency bed
C16_Witness ==
    /\ Returned
    /\ ValidHospital
    /\ ret[1] = 100
    /\ call.h.emergencyBeds.available > 0

\* the hospital of this call is the hospital of the call before with more
\* than the assumed maximum of slots in a pool that had exactly the maximum
RestockedAboveMax ==
    /\ last # NoCall
    /\ \E slots \in {"labAvailable", "pharmacyAvailable"} :
          /\ last.h[slots] = LAB_PHARMACY_MAX
          /\ call.h[slots] > LAB_PHARMACY_MAX
          /\ call.h = [last.h EXCEPT ![slots] = call.h[slots]]

(* C17: the used fraction of the lab and of the pharmacy slots that enters *)
(* the weighted sum lies in [0,1] for every non-negative available count,  *)
(* so a hospital with more than 10 slots available gets the occupancy of   *)
(* the same hospital with exactly 10.                                      *)
C17_SlotsClamped ==
    (Returned /\ ValidHospital) =>
        /\ \A n \in {call.h.labAvailable, call.h.pharmacyAvailable} :
              /\ QLeq(Q(0, 1), slotsUsed(n))
              /\ QLeq(slotsUsed(n), Q(1, 1))
        /\ RestockedAboveMax => ret[1] = last.ret

----------------------------------------------------------------------------
(* getOccupiedLevelFromPercentage *)

\* how severe a level is
LevelRank == [low |-> 0, moderate |-> 1, high |-> 2, critical |-> 3]

(* C18: a percentage p of 0..100 maps to critical when p >= 75, to high    *)
(* when 50 <= p < 75, to moderate when 25 <= p < 50 and to low when        *)
(* p < 25, and the level of a higher percentage is never less severe.      *)
C18_Levels ==
    (Returned /\ call.fn = "getOccupiedLevelFromPercentage") =>
        LET p == call.occupancyPct
        IN  /\ p >= 75 => ret[1] = "critical"
            /\ (50 <= p /\ p < 75) => ret[1] = "high"
            /\ (25 <= p /\ p < 50) => ret[1] = "moderate"
            /\ p < 25 => ret[1] = "low"
            /\ (last # NoCall /\ last.occupancyPct < p)
                  => LevelRank[last.ret] <= LevelRank[ret[1]]

\* the percentage went from 74 to 75 and the level from high to critical
C18_Witness ==
    /\ Returned
    /\ call.fn = "getOccupiedLevelFromPercentage"
    /\ last # NoCall
    /\ last.occupancyPct = 74 /\ last.ret = "high"
    /\ call.occupancyPct = 75 /\ ret[1] = "critical"

----------------------------------------------------------------------------
(* getEffectiveServiceAvailability *)

(* C19: for every hospital, Ibn Tofail included, and every occupancy       *)
(* percentage, a capability marked available is one the hospital offers.   *)
C19_OnlyOffered ==
    (Returned /\ call.fn = "getEffectiveServiceAvailability") =>
        \A k \in HospitalServiceKey : ret[1][k] => k \in call.h.services

\* Ibn Tofail without a trauma unit at 100 percent: cardiology is marked
\* available, the trauma unit is not
C19_Witness ==
    /\ Returned
    /\ call.fn = "getEffectiveServiceAvailability"
    /\ call.h.id = "h2"
    /\ call.occupancyPct = 100
    /\ "traumaUnit" \notin call.h.services
    /\ ret[1]["cardiology"]
    /\ ~ret[1]["traumaUnit"]

\* the offered capabilities that come before k in the canonical order
OfferedBefore(k) ==
    {j \in 1..Len(SERVICE_KEYS_ORDER) :
        /\ SERVICE_KEYS_ORDER[j] \in call.h.services
        /\ \E i \in (j + 1)..Len(SERVICE_KEYS_ORDER) : SERVICE_KEYS_ORDER[i] = k}

(* C20: for every hospital and every percentage of 0..100 the unavailable  *)
(* capabilities are those the hospital does not offer and the first        *)
(* floor(offeredCount * occupancyPct / 100) offered ones in the canonical  *)
(* order; every other offered capability is available, whichever hospital  *)
(* it is.                                                                  *)
C20_FirstOverloaded ==
    (Returned /\ call.fn = "getEffectiveServiceAvailability") =>
        LET overloadedCount ==
                (Cardinality(call.h.services \cap HospitalServiceKey)
                    * call.occupancyPct) \div 100
        IN  \A k \in HospitalServiceKey :
                ret[1][k] <=> /\ k \in call.h.services
                              /\ Cardinality(OfferedBefore(k)) >= overloadedCount

----------------------------------------------------------------------------
(* getDangerColor *)

DangerRank == [green |-> 0, yellow |-> 1, orange |-> 2, red |-> 3]

(* C21: getDangerColor returns red for totalVictims >= 9, orange for 6..8, *)
(* yellow for 3..5 and green below 3, and the color of a higher count is   *)
(* never lower in the order green < yellow < orange < red.                 *)
C21_DangerBands ==
    (Returned /\ call.fn = "getDangerColor") =>
        LET n == call.totalVictims
        IN  /\ n >= 9 => ret[1] = "red"
            /\ (6 <= n /\ n <= 8) => ret[1] = "orange"
            /\ (3 <= n /\ n <= 5) => ret[1] = "yellow"
            /\ n < 3 => ret[1] = "green"
            /\ (last # NoCall /\ last.totalVictims < n)
                  => DangerRank[last.ret] <= DangerRank[ret[1]]

\* the count went from 8 to 9 and the color from orange to red
C21_Witness ==
    /\ Returned
    /\ call.fn = "getDangerColor"
    /\ last # NoCall
    /\ last.totalVictims = 8 /\ last.ret = "orange"
    /\ call.totalVictims = 9 /\ ret[1] = "red"

----------------------------------------------------------------------------
(* Grouping *)

Grouped == pc \in {"sort", "assign", "done"} /\ Len(hospitals) # 0

GroupIdx == 1..Len(placeGroups)

\* the ids of the cases in the member list of group k
GroupIds(k) ==
    {placeGroups[k].caseList[j].id : j \in 1..Len(placeGroups[k].caseList)}

\* the groups whose member list holds input case i
GroupsOfCase(i) == {k \in GroupIdx : cases[i].id \in GroupIds(k)}

\* the sum of numberOfPatients over the input cases 1..n that are in group k
RECURSIVE GroupVictimsUpTo(_, _)
GroupVictimsUpTo(k, n) ==
    IF n = 0 THEN 0
    ELSE GroupVictimsUpTo(k, n - 1)
         + (IF cases[n].id \in GroupIds(k) THEN cases[n].numberOfPatients ELSE 0)

(* C22: grouping partitions the cases: every input case is in the member  *)
(* list of exactly one group, no group is empty or holds anything but     *)
(* input cases, two cases are in the same group exactly when their        *)
(* placeName strings are equal, and a group's totalVictims is the sum of  *)
(* numberOfPatients over its member cases.                                *)
C22_Partition ==
    Grouped =>
        /\ \A i \in CaseIdx : Cardinality(GroupsOfCase(i)) = 1
        /\ \A k \in GroupIdx :
              /\ Len(placeGroups[k].caseList) > 0
              /\ Len(placeGroups[k].caseList) = Cardinality(GroupIds(k))
              /\ GroupIds(k) \subseteq {cases[i].id : i \in CaseIdx}
              /\ placeGroups[k].totalVictims = GroupVictimsUpTo(k, Len(cases))
        /\ \A i, j \in CaseIdx :
              (GroupsOfCase(i) = GroupsOfCase(j)) <=> (cases[i].placeName = cases[j].placeName)

\* three cases grouped: two in one place, of 1 and 2 victims, and one in a
\* place whose name differs from theirs by the case of a letter only
C22_Witness ==
    /\ Grouped
    /\ Len(cases) = 3
    /\ Len(placeGroups) = 2
    /\ \E i, j, k \in CaseIdx :
          /\ cases[i].placeName = "Medina" /\ cases[j].placeName = "Medina"
          /\ cases[i].numberOfPatients = 1 /\ cases[j].numberOfPatients = 2
          /\ cases[k].placeName = "medina"

----------------------------------------------------------------------------
(* Requirements of a group *)

GroupedRun(p) == runs[p].pc \in {"sort", "assign", "done"} /\ Len(runs[p].hospitals) # 0

\* the requirement sets inferred from the cases of pass p in the place
InferredAt(p, place) ==
    {getRequiredServicesForCase(runs[p].cases[i]) :
        i \in {j \in 1..Len(runs[p].cases) : runs[p].cases[j].placeName = place}}

\* the requirement sets of the groups of pass p for the place
RequiredAt(p, place) ==
    {runs[p].placeGroups[k].requiredServices :
        k \in {n \in 1..Len(runs[p].placeGroups) : runs[p].placeGroups[n].placeName = place}}

(* C23: a group's required capability set is the union of the sets        *)
(* inferred from its member cases, each inferred from that case alone,    *)
(* and two passes over the same cases in different orders give every      *)
(* place the same required set.                                           *)
C23_UnionAnyOrder ==
    /\ \A p \in Passes :
          GroupedRun(p) =>
              \A k \in 1..Len(runs[p].placeGroups) :
                  runs[p].placeGroups[k].requiredServices
                      = UNION InferredAt(p, runs[p].placeGroups[k].placeName)
    /\ (GroupedRun(1) /\ GroupedRun(2)) =>
          \A place \in {"Medina", "Gueliz"} : RequiredAt(1, place) = RequiredAt(2, place)

\* both passes have grouped two cases of one place whose inferred sets
\* differ and are not empty, and the two passes got them in opposite orders
C23_Witness ==
    /\ GroupedRun(1) /\ GroupedRun(2)
    /\ Len(runs[1].cases) = 2
    /\ runs[1].cases[1].placeName = runs[1].cases[2].placeName
    /\ getRequiredServicesForCase(runs[1].cases[1]) = {"cardiology"}
    /\ getRequiredServicesForCase(runs[1].cases[2]) = {"burnUnit"}
    /\ runs[2].cases = <<runs[1].cases[2], runs[1].cases[1]>>
    /\ runs[1].placeGroups[1].requiredServices = {"cardiology", "burnUnit"}

----------------------------------------------------------------------------
(* Capability against capacity *)

(* C24 as stated: for a group with a non-empty requirement set, when no   *)
(* hospital has both the beds and every required capability but some      *)
(* hospital offers every required capability, the group is assigned to a  *)
(* hospital offering every required capability.                           *)
C24_AsStated ==
    (/\ Stepped
     /\ LastGroup.requiredServices # {}
     /\ WithBedsFloored \cap WithServices = {}
     /\ WithServices # {})
        => \E k \in WithServices : GroupHospital(gi - 1) = hospitals[k].name

(* C24: for a group with a non-empty requirement set, when no hospital    *)
(* has the beds for the group but some hospital offers every required     *)
(* capability, the group is assigned to a hospital offering every         *)
(* required capability, not to a nearer hospital that lacks one.          *)
C24_CapableWhenFull ==
    (/\ Stepped
     /\ LastGroup.requiredServices # {}
     /\ WithBedsFloored = {}
     /\ WithServices # {})
        => \E k \in WithServices : GroupHospital(gi - 1) = hospitals[k].name

\* the last group processed needed a capability, found no hospital with
\* the beds, and went by the third loop to a capable hospital that is
\* farther than one lacking a capability
C24_Witness ==
    /\ Stepped
    /\ LastGroup.requiredServices # {}
    /\ WithBedsFloored = {}
    /\ GroupTier(gi - 1) = 3
    /\ \E k \in WithServices, j \in HospitalIdx \ WithServices :
          /\ GroupHospital(gi - 1) = hospitals[k].name
          /\ Dist(j, LastGroup) < Dist(k, LastGroup)

----------------------------------------------------------------------------
(* The member list of a group *)

(* C25: within each group the member list is in ascending order of        *)
(* severity rank, and cases of equal severity are in ascending order of   *)
(* report time, whatever their order in the input.                        *)
C25_MemberOrder ==
    Grouped =>
        \A k \in GroupIdx :
            \A i, j \in 1..Len(placeGroups[k].caseList) :
                i < j =>
                    LET a == placeGroups[k].caseList[i]
                        b == placeGroups[k].caseList[j]
                    IN  \/ severityOrder[a.severity] < severityOrder[b.severity]
                        \/ /\ severityOrder[a.severity] = severityOrder[b.severity]
                           /\ a.timeOfReport <= b.timeOfReport

----------------------------------------------------------------------------
(* A group without requirements *)

\* hospital k is the nearest, hospital j the second-nearest, of the last
\* group processed; k had fewer beds left than the group has victims and j
\* had enough
NearestFullSecondFree(k, j) ==
    /\ IsNearestOf(k, HospitalIdx, LastGroup)
    /\ IsNearestOf(j, HospitalIdx \ {k}, LastGroup)
    /\ bedsLeftFloored(k, usedBefore) < LastGroup.totalVictims
    /\ bedsLeftFloored(j, usedBefore) >= LastGroup.totalVictims

(* C26 as stated: a group with an empty requirement set whose nearest     *)
(* hospital has fewer ledger-adjusted beds than the group has victims and *)
(* whose second-nearest hospital has enough is assigned to the            *)
(* second-nearest hospital, selected by tier 2 after tier 1 has failed.   *)
C26_AsStated ==
    (Stepped /\ LastGroup.requiredServices = {}) =>
        \A k, j \in HospitalIdx :
            NearestFullSecondFree(k, j) =>
                /\ GroupHospital(gi - 1) = hospitals[j].name
                /\ GroupTier(gi - 1) = 2

(* C26: a group with an empty requirement set whose nearest hospital has  *)
(* fewer ledger-adjusted beds than the group has victims and whose        *)
(* second-nearest hospital has enough is assigned to the second-nearest   *)
(* hospital, selected by tier 1: every hospital satisfies an empty        *)
(* requirement set.                                                       *)
C26_SecondNearest ==
    (Stepped /\ LastGroup.requiredServices = {}) =>
        \A k, j \in HospitalIdx :
            NearestFullSecondFree(k, j) =>
                /\ GroupHospital(gi - 1) = hospitals[j].name
                /\ GroupTier(gi - 1) = 1

\* a group of 1 victim without requirements, its nearest hospital with no
\* bed and its second-nearest, strictly farther, with one
C26_Witness ==
    /\ Stepped
    /\ LastGroup.requiredServices = {}
    /\ LastGroup.totalVictims = 1
    /\ \E k, j \in HospitalIdx :
          /\ NearestFullSecondFree(k, j)
          /\ Dist(k, LastGroup) < Dist(j, LastGroup)
          /\ bedsLeftFloored(k, usedBefore) = 0
          /\ GroupHospital(gi - 1) = hospitals[j].name

----------------------------------------------------------------------------
(* No preemption *)

SortedRun(p) == runs[p].pc \in {"assign", "done"} /\ Len(runs[p].hospitals) # 0

\* what the loop reads of a group
SameGroup(a, b) ==
    /\ a.placeName = b.placeName
    /\ a.latSum = b.latSum
    /\ a.count = b.count
    /\ a.totalVictims = b.totalVictims
    /\ a.requiredServices = b.requiredServices

\* the two passes have the same first n groups in processing order
CommonPrefix(n) ==
    /\ n <= Len(runs[1].placeGroups)
    /\ n <= Len(runs[2].placeGroups)
    /\ \A k \in 1..n : SameGroup(runs[1].placeGroups[k], runs[2].placeGroups[k])

\* the hospital pass p has recorded for its k-th group
RunGroupHospital(p, k) ==
    MapGet(runs[p].placeToHospital, runs[p].placeGroups[k].placeName, NULL)

(* C27: the hospital chosen for a group depends only on the hospital list *)
(* and on the groups up to it in processing order: two passes over the    *)
(* same hospitals whose first n groups are the same have chosen the same  *)
(* hospital for each of them once both have processed them, however far   *)
(* either pass has gone since and whatever groups come later in either.   *)
C27_NoPreemption ==
    (SortedRun(1) /\ SortedRun(2)) =>
        \A n \in 1..(MinOf({runs[1].gi, runs[2].gi}) - 1) :
            CommonPrefix(n) =>
                \A k \in 1..n : RunGroupHospital(1, k) = RunGroupHospital(2, k)

\* pass 1 has just placed its first group and pass 2, which has the same
\* first group and a second group that pass 1 has not or has with other
\* victims, is done and sent its second group elsewhere
C27_Witness ==
    /\ SortedRun(1) /\ SortedRun(2)
    /\ runs[1].pc = "assign" /\ runs[1].gi = 2
    /\ runs[2].pc = "done" /\ Len(runs[2].placeGroups) = 2
    /\ CommonPrefix(1)
    /\ ~CommonPrefix(2)
    /\ RunGroupHospital(1, 1) # NULL
    /\ RunGroupHospital(2, 2) # RunGroupHospital(2, 1)

----------------------------------------------------------------------------
(* The frame of a pass on the cases *)

\* the result has the cases of the input, in the input's order, each with
\* the input's value in every field but assignedHospital
SameButHospital ==
    /\ Len(result) = Len(cases)
    /\ \A i \in CaseIdx :
          result[i] = [cases[i] EXCEPT !.assignedHospital = result[i].assignedHospital]

(* C28: a pass changes nothing about the cases but assignedHospital: on   *)
(* the early exit and on the normal path alike the result has as many     *)
(* cases as the input, in the same order, each equal to its input case in *)
(* every field other than assignedHospital, and no step of the pass       *)
(* modifies the input list or its case objects.                           *)
C28_CaseFrame == [](Done => SameButHospital) /\ [][cases' = cases]_vars

\* a pass over three cases is done and gave a case that came in with H1 the
\* hospital H2, the input case still carrying H1
C28_Witness ==
    /\ Done
    /\ Len(hospitals) # 0
    /\ Len(cases) = 3
    /\ \E i \in CaseIdx :
          /\ cases[i].assignedHospital = "H1"
          /\ result[i].assignedHospital = "H2"

----------------------------------------------------------------------------
(* The live case list *)

HookIds == {cases[i].id : i \in 1..Len(cases)}

(* C29: a case the SSE callback has put in the case list stays in the     *)
(* list through every later refresh, and the list never holds two cases   *)
(* of one id.                                                             *)
C29_LiveCaseStays ==
    /\ viaSSE \subseteq HookIds
    /\ \A i, j \in 1..Len(cases) : cases[i].id = cases[j].id => i = j

(* C30: when the fetch of a refresh fails, the refresh sets loading to    *)
(* false and leaves the case list as it was.                              *)
C30_FailureKeepsCases ==
    [][\A i \in 1..Len(pending) :
          (pending[i].pc = "got" /\ ~pending[i].ok /\ Settle(i))
              => (cases' = cases /\ loading' = FALSE)]_vars

====
